---- MODULE Spec2Model ----
(***************************************************************************)
(* Geofenced corridor tracking engine of CUZ/USERS/kleno_tracking.py:     *)
(* start_session_by_house and resume_session_by_house over the Firestore  *)
(* session document and its index record.                                 *)
(*                                                                         *)
(* Numbers.  Every kilometre value of the code is an integer number of    *)
(* thirds of a metre (KmUnit = 3000 per km), so that round(x, 3), which   *)
(* the code applies to everything it stores or returns, is a real         *)
(* rounding (to a multiple of 3) that never meets a tie.  Times are       *)
(* minutes.                                                                *)
(***************************************************************************)
EXTENDS Integers, Sequences, FiniteSets, TLC

VARIABLES now, sessions, index, pc, call, last, calls, gate

vars == <<now, sessions, index, pc, call, last, calls, gate>>

-----------------------------------------------------------------------------
(* Bounds of the model *)

\* requests served in one run, steps of the clock, sessions started
MaxCalls == 3
MaxTicks == 2
MaxSessions == 1

-----------------------------------------------------------------------------
(* Units and configuration *)

KmUnit == 3000

\* Python None for an optional number / an absent document
None == 0 - 1
NoDoc == [exists |-> FALSE]

MIN_RADIUS_KM == (3 * KmUnit) \div 10
SHRINK_STEP_KM == KmUnit \div 2
SHRINK_INTERVAL_MIN == 30
SAFETY_MARGIN_KM == KmUnit \div 5
\* LATERAL_ALLOWANCE_RATIO = RatioNum / RatioDen
RatioNum == 1
RatioDen == 5
R0_FLOOR_KM == 2 * KmUnit
R0_MARGIN_KM == 2 * KmUnit
HARD_DEV_KM == KmUnit

-----------------------------------------------------------------------------
(* round(x, n) *)

\* round(x, 3): nearest metre
Round3(x) == ((x + 1) \div 3) * 3

\* round(x, 2): nearest 10 m, a tie goes to the even multiple
Round2(x) ==
    LET q == x \div 30
        r == x % 30
    IN  IF r < 15 THEN q * 30
        ELSE IF r > 15 THEN (q + 1) * 30
        ELSE IF q % 2 = 0 THEN q * 30 ELSE (q + 1) * 30

\* allowed_dev_km = LATERAL_ALLOWANCE_RATIO * radius_km, kept as the exact
\* fraction AllowedNum(radius) / RatioDen
AllowedNum(radius_km) == RatioNum * radius_km

\* round(allowed_dev_km, 3)
RoundAllowed3(radius_km) ==
    ((2 * AllowedNum(radius_km) + 3 * RatioDen) \div (6 * RatioDen)) * 3

\* round(allowed_dev_km, 2)
RoundAllowed2(radius_km) ==
    ((2 * AllowedNum(radius_km) + 30 * RatioDen) \div (60 * RatioDen)) * 30

Max2(a, b) == IF a >= b THEN a ELSE b
Max3(a, b, c) == Max2(a, Max2(b, c))

-----------------------------------------------------------------------------
(* Geodesy kernel, on a local tangent plane *)

\* math.sqrt on the integers: the largest r with r * r <= n, by Newton's
\* iteration from above (n < 32768 * 32768)
RECURSIVE Newton(_, _)
Newton(n, x) ==
    LET y == (x + n \div x) \div 2
    IN  IF y >= x THEN x ELSE Newton(n, y)

ISqrt(n) == IF n = 0 THEN 0 ELSE Newton(n, 32768)

Abs(x) == IF x < 0 THEN -x ELSE x

haversine_km(lat1, lon1, lat2, lon2) ==
    ISqrt((lat2 - lat1) * (lat2 - lat1) + (lon2 - lon1) * (lon2 - lon1))

\* distance from (plat, plon) to the segment a -> b, clamped to its ends
point_to_segment_distance(plat, plon, alat, alon, blat, blon) ==
    LET vx == blon - alon
        vy == blat - alat
        wx == plon - alon
        wy == plat - alat
        len2 == vx * vx + vy * vy
        dot == wx * vx + wy * vy
    IN  IF len2 = 0 \/ dot <= 0 THEN haversine_km(plat, plon, alat, alon)
        ELSE IF dot >= len2 THEN haversine_km(plat, plon, blat, blon)
        ELSE Abs(wx * vy - wy * vx) \div ISqrt(len2)

\* initial compass bearing, resolved to the centre of its 45-degree sector;
\* 0 when the two points coincide.  5/12 stands for tan(22.5 degrees).
bearing(lat1, lon1, lat2, lon2) ==
    LET dx == lon2 - lon1
        dy == lat2 - lat1
        ax == Abs(dx)
        ay == Abs(dy)
    IN  IF dx = 0 /\ dy = 0 THEN 0
        ELSE IF 12 * ax <= 5 * ay THEN (IF dy > 0 THEN 0 ELSE 180)
        ELSE IF 12 * ay <= 5 * ax THEN (IF dx > 0 THEN 90 ELSE 270)
        ELSE IF dx > 0 THEN (IF dy > 0 THEN 45 ELSE 135)
        ELSE (IF dy > 0 THEN 315 ELSE 225)

direction_label(deg) ==
    LET labels == <<"N", "NE", "E", "SE", "S", "SW", "W", "NW">>
    IN  labels[(((2 * deg + 45) \div 90) % 8) + 1]

-----------------------------------------------------------------------------
(* Clock *)

\* now_iso(): the ISO-8601 text of the clock, as hour and minute
now_iso(t) == [h |-> t \div 60, m |-> t % 60]

\* parse_iso(text): minutes since the epoch of the model
parse_iso(iso) == iso.h * 60 + iso.m

-----------------------------------------------------------------------------
(* Documents the engine reads but never writes *)

University == "cuz"
Owner == "stu1"

P0 == [lat |-> 0, lon |-> 0]
POn == [lat |-> 0, lon |-> 2200]
PSoft == [lat |-> 2000, lon |-> 1200]
PHard == [lat |-> 4500, lon |-> 1200]
PD1 == [lat |-> 0, lon |-> 2401]
PD2 == [lat |-> 1801, lon |-> 2401]
\* positions of the long trip and of the trip that starts at the house
PEdge == [lat |-> 1500, lon |-> 1200]
PTie == [lat |-> 1200, lon |-> 2401]
PHardNear == [lat |-> 4500, lon |-> 2401]
PFar == [lat |-> 0, lon |-> 0 - 9600]
PWideIn == [lat |-> 3300, lon |-> 0 - 9000]
PWideOut == [lat |-> 3900, lon |-> 0 - 9000]

\* BOARDINGHOUSES/{id}
BOARDINGHOUSES(id) ==
    CASE id = "bh1" -> [exists |-> TRUE,
                        yango_coordinates |-> <<PD1.lat, PD1.lon>>,
                        GPS_coordinates |-> <<>>]
      [] id = "bh3" -> [exists |-> TRUE,
                        yango_coordinates |-> <<>>,
                        GPS_coordinates |-> <<PD1.lat>>]
      [] OTHER -> NoDoc

\* HOME/{university}/BOARDHOUSE/{id}
HOME_BOARDHOUSE(university, id) ==
    CASE university = University /\ id = "bh2" ->
             [exists |-> TRUE,
              yango_coordinates |-> <<>>,
              GPS_coordinates |-> <<PD2.lat, PD2.lon>>]
      [] OTHER -> NoDoc

HouseIds == {"bh1", "bh2", "bh3", "bh4"}

\* USERS/{university}/students/{student_id}, as a request may find it (the
\* profile endpoints write it, the engine only reads it)
StudentNoLocation == [exists |-> TRUE, lat |-> None, lon |-> None]
StudentWithLocation == [exists |-> TRUE, lat |-> P0.lat, lon |-> P0.lon]

\* Body(None) positions of a request: nothing, or half a pair
NoPosition == [lat |-> None, lon |-> None]
HalfPosition == [lat |-> PHard.lat, lon |-> None]

\* the authenticated user that get_premium_student_or_admin lets through
OwnerUser == [role |-> "student", user_id |-> Owner, university |-> University]
OtherUser == [role |-> "student", user_id |-> "stu2", university |-> University]
AdminUser == [role |-> "admin", user_id |-> "adm", university |-> University]

StartRequest(u, h, c, sref) ==
    [user |-> u, house |-> h, pos |-> c, student |-> sref]

StartRequests ==
    { StartRequest(OwnerUser, "bh1", P0, NoDoc),
      StartRequest(OwnerUser, "bh1", PD1, NoDoc),
      StartRequest(AdminUser, "bh2", P0, NoDoc),
      StartRequest(OtherUser, "bh1", P0, NoDoc),
      StartRequest(OwnerUser, "bh3", P0, NoDoc),
      StartRequest(OwnerUser, "bh4", P0, NoDoc),
      StartRequest(OwnerUser, "bh1", NoPosition, NoDoc),
      StartRequest(OwnerUser, "bh1", NoPosition, StudentNoLocation),
      StartRequest(OwnerUser, "bh1", HalfPosition, StudentWithLocation) }

Procs == {1, 2}
SessionIds == 1 .. (MaxSessions + 1)

ResumeRequest(u, s, h, c, sref) ==
    [user |-> u, sid |-> s, house |-> h, pos |-> c, student |-> sref]

ResumeRequests ==
    { ResumeRequest(OwnerUser, 1, "bh1", c, NoDoc) : c \in {POn, PSoft, PHard} }
    \cup { ResumeRequest(OwnerUser, s, "bh1", PHard, NoDoc) :
               s \in 2 .. (MaxSessions + 1) }
    \cup { ResumeRequest(AdminUser, 1, "bh2", PSoft, NoDoc),
           ResumeRequest(OtherUser, 1, "bh1", PSoft, NoDoc),
           ResumeRequest(OwnerUser, 1, "bh3", PSoft, NoDoc),
           ResumeRequest(OwnerUser, 1, "bh4", PSoft, NoDoc),
           ResumeRequest(OwnerUser, 1, "bh1", NoPosition, NoDoc),
           ResumeRequest(OwnerUser, 1, "bh1", NoPosition, StudentNoLocation),
           ResumeRequest(OwnerUser, 1, "bh1", NoPosition, StudentWithLocation),
           ResumeRequest(OwnerUser, 1, "bh1", HalfPosition, StudentWithLocation) }

\* the requests of one student walking along, off and back to the corridor
AlertStartRequests ==
    { StartRequest(OwnerUser, "bh1", c, NoDoc) : c \in {P0, PD1, PFar} }

AlertResumeRequests ==
    { ResumeRequest(OwnerUser, 1, "bh1", c, NoDoc) :
          c \in {POn, PEdge, PTie, PHardNear, PWideIn, PWideOut} }

\* the requests of the concurrent workers
ConcStartRequests == { StartRequest(OwnerUser, "bh1", P0, NoDoc) }

ConcRequests ==
    { ResumeRequest(OwnerUser, 1, "bh1", c, NoDoc) : c \in {POn, PHard} }
    \cup { ResumeRequest(OwnerUser, 1, "bh4", POn, NoDoc) }

-----------------------------------------------------------------------------
(* Firestore transforms *)

InSeq(x, seq) == \E i \in 1 .. Len(seq) : seq[i] = x

\* firestore.ArrayUnion(elems) applied to the stored array arr: each element
\* not yet present is appended, in order
RECURSIVE ArrayUnion(_, _)
ArrayUnion(arr, elems) ==
    IF elems = <<>> THEN arr
    ELSE IF InSeq(Head(elems), arr) THEN ArrayUnion(arr, Tail(elems))
    ELSE ArrayUnion(Append(arr, Head(elems)), Tail(elems))

\* firestore.Increment(n)
Increment(v, n) == v + n

-----------------------------------------------------------------------------
(* Lookups *)

Fail(code, detail) == [ok |-> FALSE, code |-> code, detail |-> detail]

get_boardinghouse_coords(university, boardinghouse_id) ==
    LET first == BOARDINGHOUSES(boardinghouse_id)
        ref == IF first.exists THEN first
               ELSE HOME_BOARDHOUSE(university, boardinghouse_id)
    IN  IF ~ref.exists THEN Fail(404, "Boarding house not found")
        ELSE LET dest == IF ref.yango_coordinates # <<>>
                         THEN ref.yango_coordinates
                         ELSE ref.GPS_coordinates
             IN  IF dest = <<>> \/ Len(dest) # 2
                 THEN Fail(400, "Destination coordinates missing")
                 ELSE [ok |-> TRUE, lat |-> dest[1], lon |-> dest[2]]

get_student_stored_location(sref) ==
    IF ~sref.exists THEN Fail(404, "Student not found")
    ELSE IF sref.lat = None \/ sref.lon = None
         THEN Fail(404, "No stored location. Provide current_lat/current_lon.")
         ELSE [ok |-> TRUE, lat |-> sref.lat, lon |-> sref.lon]

\* "if current_lat is None or current_lon is None: <stored location>"
ResolvePosition(sref, current) ==
    IF current.lat = None \/ current.lon = None
    THEN get_student_stored_location(sref)
    ELSE [ok |-> TRUE, lat |-> current.lat, lon |-> current.lon]

IdentityMismatch(current_user, university, student_id) ==
    /\ current_user.role = "student"
    /\ \/ student_id # current_user.user_id
       \/ university # current_user.university

-----------------------------------------------------------------------------
(* The session document and the responses *)

NoCall == [op |-> "none"]
NoBody == [none |-> TRUE]

\* what the last served request was, what it got back and, for a resume that
\* was served, the unrounded values it computed
Response(op, req, code, detail, body) ==
    [op |-> op, req |-> req, code |-> code, detail |-> detail, body |-> body,
     computed |-> NoBody]

Computed(plan) ==
    [d_km |-> plan.d_km, dev_km |-> plan.dev_km, radius_km |-> plan.radius_km]

ResumeResponse(req, plan) ==
    [Response("resume", req, 200, "", plan.body) EXCEPT
        !.computed = Computed(plan)]

Cardinal(radius_km) ==
    [N_km |-> Round3(radius_km), S_km |-> Round3(radius_km),
     E_km |-> Round3(radius_km), W_km |-> Round3(radius_km)]

\* variant: the margin is left out of R0
InitialRadiusNoMargin(straight_km) == Max2(R0_FLOOR_KM, straight_km)

\* R0 = max(2.0, straight_km + 2.0)
InitialRadius(straight_km) == Max2(R0_FLOOR_KM, straight_km + R0_MARGIN_KM)

\* the document of session_ref.set(...) in start_session_by_house
NewSession(session_id, university, student_id, boardinghouse_id, cur, dest, t) ==
    LET straight_km == haversine_km(cur.lat, cur.lon, dest.lat, dest.lon)
        R0 == InitialRadius(straight_km)
        radius_km == R0
        started_at_iso == now_iso(t)
    IN  [exists |-> TRUE,
         session_id |-> session_id,
         university |-> university,
         user_id |-> student_id,
         boardinghouse_id |-> boardinghouse_id,
         started_at |-> started_at_iso,
         status |-> "active",
         origin |-> [lat |-> cur.lat, lon |-> cur.lon],
         destination |-> [lat |-> dest.lat, lon |-> dest.lon],
         distance_km_straight |-> Round3(straight_km),
         bubble |-> [center |-> [lat |-> dest.lat, lon |-> dest.lon],
                     radius_km |-> Round3(radius_km),
                     R0_km |-> Round3(R0),
                     min_radius_km |-> MIN_RADIUS_KM,
                     shrink_step_km |-> SHRINK_STEP_KM,
                     shrink_interval_min |-> SHRINK_INTERVAL_MIN,
                     last_shrink_at |-> started_at_iso,
                     shrink_step_count |-> 0,
                     cardinal |-> Cardinal(radius_km)],
         breadcrumbs |-> << [lat |-> cur.lat,
                             lon |-> cur.lon,
                             captured_at |-> started_at_iso,
                             distance_to_dest_km |-> Round3(straight_km),
                             bubble_radius_km |-> Round3(radius_km),
                             allowed_dev_km |-> RoundAllowed3(radius_km),
                             heading |-> direction_label(
                                 bearing(cur.lat, cur.lon, cur.lat, cur.lon)),
                             movement |-> "start"] >>,
         metrics |-> [points_logged |-> 1,
                      max_deviation_km |-> 0,
                      last_distance_km |-> Round3(straight_km),
                      last_deviation_km |-> 0],
         alerts |-> <<>>,
         bubble_history |-> << [at |-> started_at_iso,
                                radius_km |-> Round3(radius_km),
                                reason |-> "init"] >>,
         last_updated_at |-> None]

\* the document of root.collection("index").document(session_id).set(...)
NewIndex(session) ==
    [exists |-> TRUE,
     session_id |-> session.session_id,
     status |-> "active",
     started_at |-> session.started_at,
     boardinghouse_id |-> session.boardinghouse_id,
     distance_km_straight |-> session.distance_km_straight,
     bubble_radius_km |-> session.bubble.radius_km]

StartBody(session) ==
    [message |-> "Tracking session started",
     session_id |-> session.session_id,
     bubble_radius_km |-> session.bubble.radius_km,
     distance_km_straight |-> session.distance_km_straight,
     destination |-> session.destination,
     origin |-> session.origin]

-----------------------------------------------------------------------------
(* resume_session_by_house: what one call computes from the snapshot it read *)

\* variant: the latest deviation replaces the maximum
MaxDeviationLatest(stored_max, dev_km) == dev_km

\* variant: the deviations add up
MaxDeviationSum(stored_max, dev_km) == stored_max + dev_km

\* max(float(session["metrics"].get("max_deviation_km", 0.0)), dev_km)
MaxDeviation(stored_max, dev_km) == Max2(stored_max, dev_km)

\* variant: a started interval counts as a whole one
StepsElapsedCeil(started_at_iso, t) ==
    (t - parse_iso(started_at_iso) + SHRINK_INTERVAL_MIN - 1)
        \div SHRINK_INTERVAL_MIN

\* int(elapsed_minutes // SHRINK_INTERVAL_MIN), elapsed from started_at
StepsElapsed(started_at_iso, t) ==
    (t - parse_iso(started_at_iso)) \div SHRINK_INTERVAL_MIN

\* variant: the safety floor is left out
ComputeRadiusNoSafety(R0, n_steps, d_km) ==
    Max2(MIN_RADIUS_KM, R0 - n_steps * SHRINK_STEP_KM)

\* variant: the steps widen the bubble
ComputeRadiusGrowing(R0, n_steps, d_km) ==
    LET candidate_radius == R0 + n_steps * SHRINK_STEP_KM
    IN  Max3(MIN_RADIUS_KM, d_km + SAFETY_MARGIN_KM, candidate_radius)

\* radius_km = max(MIN_RADIUS_KM, d_km + SAFETY_MARGIN_KM, candidate_radius)
ComputeRadius(R0, n_steps, d_km) ==
    LET candidate_radius == R0 - n_steps * SHRINK_STEP_KM
    IN  Max3(MIN_RADIUS_KM, d_km + SAFETY_MARGIN_KM, candidate_radius)

\* dev_km > allowed_dev_km, with allowed_dev_km = ratio * radius_km
OverAllowance(dev_km, radius_km) == dev_km * RatioDen > AllowedNum(radius_km)

Movement(d_km, prev_dist) ==
    IF d_km < prev_dist THEN "closer to destination"
    ELSE "away from destination"

\* the text of an alert: its kind and the values the f-string prints
AlertText(kind, dev, allowed, heading, movement) ==
    [kind |-> kind, dev |-> dev, allowed |-> allowed,
     heading |-> heading, movement |-> movement]

\* variant: "if" in place of "elif", and no upper end on the soft range
DeviationAlertsBoth(dev_km, radius_km, heading, movement) ==
    (IF OverAllowance(dev_km, radius_km)
     THEN << AlertText("soft", Round3(dev_km), RoundAllowed3(radius_km),
                       heading, movement) >>
     ELSE <<>>)
    \o (IF dev_km >= HARD_DEV_KM
        THEN << AlertText("hard", Round2(dev_km), RoundAllowed2(radius_km),
                          heading, movement) >>
        ELSE <<>>)

\* variant: the hard alert is for a deviation that is also over the allowance
DeviationAlertsHardOverAllowance(dev_km, radius_km, heading, movement) ==
    IF OverAllowance(dev_km, radius_km) /\ dev_km < HARD_DEV_KM
    THEN << AlertText("soft", Round3(dev_km), RoundAllowed3(radius_km),
                      heading, movement) >>
    ELSE IF OverAllowance(dev_km, radius_km) /\ dev_km >= HARD_DEV_KM
    THEN << AlertText("hard", Round2(dev_km), RoundAllowed2(radius_km),
                      heading, movement) >>
    ELSE <<>>

\* variant: the soft range is closed at the allowance
DeviationAlertsSoftAtTie(dev_km, radius_km, heading, movement) ==
    IF dev_km * RatioDen >= AllowedNum(radius_km) /\ dev_km < HARD_DEV_KM
    THEN << AlertText("soft", Round3(dev_km), RoundAllowed3(radius_km),
                      heading, movement) >>
    ELSE IF dev_km >= HARD_DEV_KM
    THEN << AlertText("hard", Round2(dev_km), RoundAllowed2(radius_km),
                      heading, movement) >>
    ELSE <<>>

DeviationAlerts(dev_km, radius_km, heading, movement) ==
    IF OverAllowance(dev_km, radius_km) /\ dev_km < HARD_DEV_KM
    THEN << AlertText("soft", Round3(dev_km), RoundAllowed3(radius_km),
                      heading, movement) >>
    ELSE IF dev_km >= HARD_DEV_KM
    THEN << AlertText("hard", Round2(dev_km), RoundAllowed2(radius_km),
                      heading, movement) >>
    ELSE <<>>

ReturnAlerts(prev_dev, dev_km, radius_km, heading, movement) ==
    IF OverAllowance(prev_dev, radius_km) /\ ~OverAllowance(dev_km, radius_km)
    THEN << AlertText("returning", None, RoundAllowed3(radius_km),
                      heading, movement) >>
    ELSE <<>>

\* everything the call computes between reading the session and writing it
ResumePlan(session, boardinghouse_id, dest, cur, t) ==
    LET d_km == haversine_km(cur.lat, cur.lon, dest.lat, dest.lon)
        origin == session.origin
        dev_km == point_to_segment_distance(cur.lat, cur.lon,
                      origin.lat, origin.lon, dest.lat, dest.lon)
        max_dev == MaxDeviation(session.metrics.max_deviation_km, dev_km)
        R0 == session.bubble.R0_km
        prev_radius == session.bubble.radius_km
        n_steps == StepsElapsed(session.started_at, t)
        radius_km == ComputeRadius(R0, n_steps, d_km)
        heading == direction_label(
                       bearing(origin.lat, origin.lon, cur.lat, cur.lon))
        prev_dist == session.metrics.last_distance_km
        movement == Movement(d_km, prev_dist)
        prev_dev == session.metrics.last_deviation_km
        alerts == DeviationAlerts(dev_km, radius_km, heading, movement)
                  \o ReturnAlerts(prev_dev, dev_km, radius_km, heading, movement)
    IN  [session_id |-> session.session_id,
         d_km |-> d_km,
         dev_km |-> dev_km,
         radius_km |-> radius_km,
         prev_max_dev |-> session.metrics.max_deviation_km,
         destination |-> [lat |-> dest.lat, lon |-> dest.lon],
         boardinghouse_id |-> boardinghouse_id,
         point |-> [lat |-> cur.lat,
                    lon |-> cur.lon,
                    captured_at |-> now_iso(t),
                    distance_to_dest_km |-> Round3(d_km),
                    deviation_km |-> Round3(dev_km),
                    heading |-> heading,
                    movement |-> movement,
                    bubble_radius_km |-> Round3(radius_km),
                    allowed_dev_km |-> RoundAllowed3(radius_km)],
         max_deviation_km |-> Round3(max_dev),
         last_deviation_km |-> Round3(dev_km),
         last_distance_km |-> Round3(d_km),
         last_updated_at |-> now_iso(t),
         bubble_radius_km |-> Round3(radius_km),
         cardinal |-> Cardinal(radius_km),
         shrink_step_count |-> n_steps,
         bubble_history |->
             IF Round3(radius_km) # Round3(prev_radius)
             THEN << [at |-> now_iso(t),
                      radius_km |-> Round3(radius_km),
                      prev_radius_km |-> Round3(prev_radius),
                      steps_elapsed |-> n_steps,
                      reason |-> "stepped_shrink_with_safety_floor"] >>
             ELSE <<>>,
         alerts |-> alerts,
         body |-> [message |-> "Session resumed and breadcrumb logged",
                   destination |-> [lat |-> dest.lat, lon |-> dest.lon],
                   distance_to_dest_km |-> Round3(d_km),
                   deviation_km |-> Round3(dev_km),
                   bubble_radius_km |-> Round3(radius_km),
                   allowed_dev_km |-> RoundAllowed3(radius_km),
                   alerts |-> alerts]]

\* breadcrumbs: admin_fs.ArrayUnion([point])
WriteBreadcrumbs(stored, point) == ArrayUnion(stored, <<point>>)

\* variant: the maximum is merged with the stored one when it is written
ApplyUpdatesMerged(doc, plan) ==
    [doc EXCEPT
        !.destination = plan.destination,
        !.boardinghouse_id = plan.boardinghouse_id,
        !.breadcrumbs = ArrayUnion(@, <<plan.point>>),
        !.metrics = [points_logged |-> Increment(@.points_logged, 1),
                     max_deviation_km |->
                         Max2(@.max_deviation_km, plan.max_deviation_km),
                     last_deviation_km |-> plan.last_deviation_km,
                     last_distance_km |-> plan.last_distance_km],
        !.last_updated_at = plan.last_updated_at,
        !.bubble = [@ EXCEPT
                      !.radius_km = plan.bubble_radius_km,
                      !.cardinal = plan.cardinal,
                      !.shrink_step_count = plan.shrink_step_count,
                      !.last_shrink_at =
                          IF plan.bubble_history # <<>>
                          THEN plan.last_updated_at ELSE @],
        !.bubble_history = ArrayUnion(@, plan.bubble_history)]

\* variant: the corridor is measured from the latest position on
ApplyUpdatesRebase(doc, plan) ==
    [doc EXCEPT
        !.origin = [lat |-> plan.point.lat, lon |-> plan.point.lon],
        !.destination = plan.destination,
        !.boardinghouse_id = plan.boardinghouse_id,
        !.breadcrumbs = ArrayUnion(@, <<plan.point>>),
        !.metrics = [points_logged |-> Increment(@.points_logged, 1),
                     max_deviation_km |-> plan.max_deviation_km,
                     last_deviation_km |-> plan.last_deviation_km,
                     last_distance_km |-> plan.last_distance_km],
        !.last_updated_at = plan.last_updated_at,
        !.bubble = [@ EXCEPT
                      !.radius_km = plan.bubble_radius_km,
                      !.cardinal = plan.cardinal,
                      !.shrink_step_count = plan.shrink_step_count,
                      !.last_shrink_at =
                          IF plan.bubble_history # <<>>
                          THEN plan.last_updated_at ELSE @],
        !.bubble_history = ArrayUnion(@, plan.bubble_history)]

\* variant: the destination of the session stays the one of the start
ApplyUpdatesKeepDestination(doc, plan) ==
    [doc EXCEPT
        !.breadcrumbs = ArrayUnion(@, <<plan.point>>),
        !.metrics = [points_logged |-> Increment(@.points_logged, 1),
                     max_deviation_km |-> plan.max_deviation_km,
                     last_deviation_km |-> plan.last_deviation_km,
                     last_distance_km |-> plan.last_distance_km],
        !.last_updated_at = plan.last_updated_at,
        !.bubble = [@ EXCEPT
                      !.radius_km = plan.bubble_radius_km,
                      !.cardinal = plan.cardinal,
                      !.shrink_step_count = plan.shrink_step_count,
                      !.last_shrink_at =
                          IF plan.bubble_history # <<>>
                          THEN plan.last_updated_at ELSE @],
        !.bubble_history = ArrayUnion(@, plan.bubble_history)]

\* variant: every resume leaves a bubble_history entry
ApplyUpdatesHistoryAlways(doc, plan) ==
    [doc EXCEPT
        !.destination = plan.destination,
        !.boardinghouse_id = plan.boardinghouse_id,
        !.breadcrumbs = ArrayUnion(@, <<plan.point>>),
        !.metrics = [points_logged |-> Increment(@.points_logged, 1),
                     max_deviation_km |-> plan.max_deviation_km,
                     last_deviation_km |-> plan.last_deviation_km,
                     last_distance_km |-> plan.last_distance_km],
        !.last_updated_at = plan.last_updated_at,
        !.bubble = [@ EXCEPT
                      !.radius_km = plan.bubble_radius_km,
                      !.cardinal = plan.cardinal,
                      !.shrink_step_count = plan.shrink_step_count],
        !.bubble_history =
            Append(@, [at |-> plan.last_updated_at,
                       radius_km |-> plan.bubble_radius_km,
                       prev_radius_km |-> doc.bubble.radius_km,
                       steps_elapsed |-> plan.shrink_step_count,
                       reason |-> "stepped_shrink_with_safety_floor"])]

\* session_ref.update(updates) on the document as it is stored at that moment
ApplyUpdates(doc, plan) ==
    [doc EXCEPT
        !.destination = plan.destination,
        !.boardinghouse_id = plan.boardinghouse_id,
        !.breadcrumbs = WriteBreadcrumbs(@, plan.point),
        !.metrics = [points_logged |-> Increment(@.points_logged, 1),
                     max_deviation_km |-> plan.max_deviation_km,
                     last_deviation_km |-> plan.last_deviation_km,
                     last_distance_km |-> plan.last_distance_km],
        !.last_updated_at = plan.last_updated_at,
        !.bubble = [@ EXCEPT
                      !.radius_km = plan.bubble_radius_km,
                      !.cardinal = plan.cardinal,
                      !.shrink_step_count = plan.shrink_step_count,
                      !.shrink_step_km = SHRINK_STEP_KM,
                      !.shrink_interval_min = SHRINK_INTERVAL_MIN,
                      !.min_radius_km = MIN_RADIUS_KM,
                      !.last_shrink_at =
                          IF plan.bubble_history # <<>>
                          THEN plan.last_updated_at ELSE @],
        !.bubble_history = ArrayUnion(@, plan.bubble_history)]

\* session_ref.update({"alerts": admin_fs.ArrayUnion(alerts)})
ApplyAlerts(doc, alerts) == [doc EXCEPT !.alerts = ArrayUnion(@, alerts)]

-----------------------------------------------------------------------------
(* The limiter in front of resume_session_by_house *)

\* remote addresses the requests come from
Addresses == {"ip1", "ip2"}

\* @limiter.limit("2/30seconds")
LIMIT_HITS == 2
LIMIT_WINDOW_S == 30

\* the seconds the clock of the limiter moves at a time
GateStepS == LIMIT_WINDOW_S \div 2

\* the limiter: its clock in seconds, one window per key (the remote
\* address) and, for the record, who was let through and when
NoHits ==
    [t |-> 0,
     hits |-> [a \in Addresses |-> [start |-> 0, count |-> 0]],
     admitted |-> <<>>]

\* the window of a key as a hit finds it: a window that is over starts anew
Window(g, addr) ==
    IF g.t >= g.hits[addr].start + LIMIT_WINDOW_S
    THEN [start |-> g.t, count |-> 0]
    ELSE g.hits[addr]

Admitted(g, addr) == Window(g, addr).count < LIMIT_HITS

\* the limiter after a hit of the key
Hit(g, addr, user) ==
    LET w == Window(g, addr)
    IN  IF w.count < LIMIT_HITS
        THEN [g EXCEPT !.hits[addr] = [w EXCEPT !.count = @ + 1],
                       !.admitted = Append(@, [user_id |-> user.user_id,
                                               addr |-> addr, t |-> g.t])]
        ELSE [g EXCEPT !.hits[addr] = w]

-----------------------------------------------------------------------------
(* State machine *)

Init ==
    /\ now = 0
    /\ sessions = [s \in SessionIds |-> NoDoc]
    /\ index = [s \in SessionIds |-> NoDoc]
    /\ pc = [p \in Procs |-> "idle"]
    /\ call = [p \in Procs |-> NoCall]
    /\ last = Response("none", NoCall, 0, "", NoBody)
    /\ calls = 0
    /\ gate = NoHits

Existing == {s \in SessionIds : sessions[s].exists}

\* the reading of the clock, in minutes, after k steps: the first step takes
\* 35 minutes, each later one 95
ClockAt(k) == IF k = 0 THEN 0 ELSE 35 + (k - 1) * 95

\* the wall clock moves on
Tick ==
    /\ \E k \in 0 .. (MaxTicks - 1) : now = ClockAt(k) /\ now' = ClockAt(k + 1)
    /\ UNCHANGED <<sessions, index, pc, call, last, calls, gate>>

\* variant: without a position the trip starts at the destination
StartOutcomeFallback(req, t) ==
    LET dest == get_boardinghouse_coords(University, req.house)
        cur == ResolvePosition(req.student, req.pos)
    IN  IF IdentityMismatch(req.user, University, Owner)
        THEN Fail(403, "Identity mismatch")
        ELSE IF ~dest.ok THEN dest
        ELSE [ok |-> TRUE,
              session |-> NewSession(Cardinality(Existing) + 1, University,
                                     Owner, req.house,
                                     IF cur.ok THEN cur ELSE dest, dest, t)]

\* the outcome of start_session_by_house: the error it raises, or the session
StartOutcome(req, t) ==
    LET dest == get_boardinghouse_coords(University, req.house)
        cur == ResolvePosition(req.student, req.pos)
    IN  IF IdentityMismatch(req.user, University, Owner)
        THEN Fail(403, "Identity mismatch")
        ELSE IF ~dest.ok THEN dest
        ELSE IF ~cur.ok THEN cur
        ELSE [ok |-> TRUE,
              session |-> NewSession(Cardinality(Existing) + 1, University,
                                     Owner, req.house, cur, dest, t)]

\* start_session_by_house
StartSession(req) ==
    /\ \A p \in Procs : pc[p] = "idle"
    /\ calls < MaxCalls
    /\ calls' = calls + 1
    /\ LET out == StartOutcome(req, now)
       IN  IF ~out.ok
           THEN /\ last' = Response("start", req, out.code, out.detail, NoBody)
                /\ UNCHANGED <<sessions, index>>
           ELSE /\ Cardinality(Existing) < MaxSessions
                /\ sessions' = [sessions EXCEPT
                                  ![out.session.session_id] = out.session]
                /\ index' = [index EXCEPT
                               ![out.session.session_id] = NewIndex(out.session)]
                /\ last' = Response("start", req, 200, "",
                                   StartBody(out.session))
    /\ UNCHANGED <<now, pc, call, gate>>

\* variant: the status of the session is not looked at
ResumeOutcomeNoStatus(req, t) ==
    LET session == sessions[req.sid]
        dest == get_boardinghouse_coords(University, req.house)
        cur == ResolvePosition(req.student, req.pos)
    IN  IF IdentityMismatch(req.user, University, Owner)
        THEN Fail(403, "Identity mismatch")
        ELSE IF ~session.exists THEN Fail(404, "Session not found")
        ELSE IF ~dest.ok THEN dest
        ELSE IF ~cur.ok THEN cur
        ELSE [ok |-> TRUE,
              plan |-> ResumePlan(session, req.house, dest, cur, t)]

\* variant: the session is fetched before the caller is looked at
ResumeOutcomeLookupFirst(req, t) ==
    LET session == sessions[req.sid]
        dest == get_boardinghouse_coords(University, req.house)
        cur == ResolvePosition(req.student, req.pos)
    IN  IF ~session.exists THEN Fail(404, "Session not found")
        ELSE IF IdentityMismatch(req.user, University, Owner)
        THEN Fail(403, "Identity mismatch")
        ELSE IF session.status # "active" THEN Fail(400, "Session not active")
        ELSE IF ~dest.ok THEN dest
        ELSE IF ~cur.ok THEN cur
        ELSE [ok |-> TRUE,
              plan |-> ResumePlan(session, req.house, dest, cur, t)]

\* variant: the destination is resolved before the status is looked at
ResumeOutcomeDestFirst(req, t) ==
    LET session == sessions[req.sid]
        dest == get_boardinghouse_coords(University, req.house)
        cur == ResolvePosition(req.student, req.pos)
    IN  IF IdentityMismatch(req.user, University, Owner)
        THEN Fail(403, "Identity mismatch")
        ELSE IF ~session.exists THEN Fail(404, "Session not found")
        ELSE IF ~dest.ok THEN dest
        ELSE IF session.status # "active" THEN Fail(400, "Session not active")
        ELSE IF ~cur.ok THEN cur
        ELSE [ok |-> TRUE,
              plan |-> ResumePlan(session, req.house, dest, cur, t)]

\* variant: without a position the origin of the session is taken
ResumeOutcomeFallback(req, t) ==
    LET session == sessions[req.sid]
        dest == get_boardinghouse_coords(University, req.house)
        cur == ResolvePosition(req.student, req.pos)
    IN  IF IdentityMismatch(req.user, University, Owner)
        THEN Fail(403, "Identity mismatch")
        ELSE IF ~session.exists THEN Fail(404, "Session not found")
        ELSE IF session.status # "active" THEN Fail(400, "Session not active")
        ELSE IF ~dest.ok THEN dest
        ELSE [ok |-> TRUE,
              plan |-> ResumePlan(session, req.house, dest,
                                  IF cur.ok THEN cur ELSE session.origin, t)]

\* the outcome of resume_session_by_house before its writes: the error it
\* raises, or the updates it computed from the session it read
ResumeOutcome(req, t) ==
    LET session == sessions[req.sid]
        dest == get_boardinghouse_coords(University, req.house)
        cur == ResolvePosition(req.student, req.pos)
    IN  IF IdentityMismatch(req.user, University, Owner)
        THEN Fail(403, "Identity mismatch")
        ELSE IF ~session.exists THEN Fail(404, "Session not found")
        ELSE IF session.status # "active" THEN Fail(400, "Session not active")
        ELSE IF ~dest.ok THEN dest
        ELSE IF ~cur.ok THEN cur
        ELSE [ok |-> TRUE,
              plan |-> ResumePlan(session, req.house, dest, cur, t)]

\* variant: the resume brings the index record up to date
ResumeSessionSyncIndex(req) ==
    /\ \A p \in Procs : pc[p] = "idle"
    /\ calls < MaxCalls
    /\ calls' = calls + 1
    /\ LET out == ResumeOutcome(req, now)
       IN  IF ~out.ok
           THEN /\ last' = Response("resume", req, out.code, out.detail, NoBody)
                /\ UNCHANGED <<sessions, index>>
           ELSE /\ sessions' = [sessions EXCEPT ![req.sid] =
                       ApplyAlerts(ApplyUpdates(@, out.plan), out.plan.alerts)]
                /\ index' = [index EXCEPT
                       ![req.sid].boardinghouse_id = out.plan.boardinghouse_id,
                       ![req.sid].bubble_radius_km = out.plan.bubble_radius_km]
                /\ last' = ResumeResponse(req, out.plan)
    /\ UNCHANGED <<now, pc, call, gate>>

\* resume_session_by_house, one request served from start to end
ResumeSession(req) ==
    /\ \A p \in Procs : pc[p] = "idle"
    /\ calls < MaxCalls
    /\ calls' = calls + 1
    /\ LET out == ResumeOutcome(req, now)
       IN  IF ~out.ok
           THEN /\ last' = Response("resume", req, out.code, out.detail, NoBody)
                /\ UNCHANGED sessions
           ELSE /\ sessions' = [sessions EXCEPT ![req.sid] =
                       ApplyAlerts(ApplyUpdates(@, out.plan), out.plan.alerts)]
                /\ last' = ResumeResponse(req, out.plan)
    /\ UNCHANGED <<now, index, pc, call, gate>>

\* the completion / cancellation action outside the engine
EndSession(session_id, status) ==
    /\ sessions[session_id].exists
    /\ sessions[session_id].status = "active"
    /\ sessions' = [sessions EXCEPT ![session_id].status = status]
    /\ UNCHANGED <<now, index, pc, call, last, calls, gate>>

Next ==
    \/ Tick
    \/ \E req \in StartRequests : StartSession(req)
    \/ \E req \in ResumeRequests : ResumeSession(req)
    \/ \E s \in SessionIds, st \in {"completed", "cancelled"} :
           EndSession(s, st)

Spec == Init /\ [][Next]_vars

-----------------------------------------------------------------------------
(* Several workers serve resumes of one session at once: each request is    *)
(* three Firestore round trips, and other requests run between them         *)

\* resume_session_by_house from the identity check to the computed updates
ResumeRead(p, req) ==
    /\ pc[p] = "idle"
    /\ calls < MaxCalls
    /\ calls' = calls + 1
    /\ LET out == ResumeOutcome(req, now)
       IN  IF ~out.ok
           THEN /\ last' = Response("resume", req, out.code, out.detail, NoBody)
                /\ UNCHANGED <<pc, call>>
           ELSE /\ call' = [call EXCEPT ![p] =
                              [op |-> "resume", req |-> req, plan |-> out.plan]]
                /\ pc' = [pc EXCEPT ![p] = "update"]
                /\ UNCHANGED last
    /\ UNCHANGED <<now, sessions, index, gate>>

\* resume_session_by_house: session_ref.update(updates)
ResumeUpdate(p) ==
    /\ pc[p] = "update"
    /\ LET plan == call[p].plan
       IN  sessions' = [sessions EXCEPT
                          ![plan.session_id] = ApplyUpdates(@, plan)]
    /\ pc' = [pc EXCEPT ![p] = "alerts"]
    /\ UNCHANGED <<now, index, call, last, calls, gate>>

\* resume_session_by_house: the alerts update and the response
ResumeAlerts(p) ==
    /\ pc[p] = "alerts"
    /\ LET plan == call[p].plan
       IN  /\ sessions' = [sessions EXCEPT
                             ![plan.session_id] = ApplyAlerts(@, plan.alerts)]
           /\ last' = ResumeResponse(call[p].req, plan)
    /\ pc' = [pc EXCEPT ![p] = "idle"]
    /\ call' = [call EXCEPT ![p] = NoCall]
    /\ UNCHANGED <<now, index, calls, gate>>

NextConc ==
    \/ Tick
    \/ \E req \in ConcStartRequests : StartSession(req)
    \/ \E p \in Procs, req \in ConcRequests : ResumeRead(p, req)
    \/ \E p \in Procs : ResumeUpdate(p)
    \/ \E p \in Procs : ResumeAlerts(p)
    \/ \E s \in SessionIds, st \in {"completed", "cancelled"} :
           EndSession(s, st)

SpecConc == Init /\ [][NextConc]_vars

-----------------------------------------------------------------------------
(* One student, one trip: positions on, off and back on the corridor, over  *)
(* a short trip, a trip that starts at the house and a long trip            *)

NextAlerts ==
    \/ Tick
    \/ \E req \in AlertStartRequests : StartSession(req)
    \/ \E req \in AlertResumeRequests : ResumeSession(req)

SpecAlerts == Init /\ [][NextAlerts]_vars

-----------------------------------------------------------------------------
(* Resumes as they arrive at the route, through the limiter                 *)

LimitRequests ==
    { ResumeRequest(OwnerUser, 1, "bh1", c, NoDoc) : c \in {POn, PHard} }
    \cup { ResumeRequest(OtherUser, 1, "bh1", POn, NoDoc) }

\* seconds go by
Pass ==
    /\ gate.t < GateStepS * MaxTicks
    /\ gate' = [gate EXCEPT !.t = @ + GateStepS]
    /\ UNCHANGED <<now, sessions, index, pc, call, last, calls>>

\* a resume request from a remote address: the limiter, then the handler
LimitedResume(addr, req) ==
    /\ \A p \in Procs : pc[p] = "idle"
    /\ calls < MaxCalls
    /\ calls' = calls + 1
    /\ gate' = Hit(gate, addr, req.user)
    /\ IF ~Admitted(gate, addr)
       THEN /\ last' = Response("resume", req, 429,
                                "Too many requests. Please slow down.", NoBody)
            /\ UNCHANGED sessions
       ELSE LET out == ResumeOutcome(req, now)
            IN  IF ~out.ok
                THEN /\ last' = Response("resume", req, out.code, out.detail,
                                         NoBody)
                     /\ UNCHANGED sessions
                ELSE /\ sessions' = [sessions EXCEPT ![req.sid] =
                            ApplyAlerts(ApplyUpdates(@, out.plan),
                                        out.plan.alerts)]
                     /\ last' = ResumeResponse(req, out.plan)
    /\ UNCHANGED <<now, index, pc, call>>

NextLimit ==
    \/ Pass
    \/ \E req \in ConcStartRequests : StartSession(req)
    \/ \E addr \in Addresses, req \in LimitRequests : LimitedResume(addr, req)

SpecLimit == Init /\ [][NextLimit]_vars

-----------------------------------------------------------------------------
(* Properties *)

\* what the properties say of a request, read off the request itself
CallerAllowed(req) ==
    \/ req.user.role = "admin"
    \/ req.user.user_id = Owner /\ req.user.university = University

PositionGiven(req) == req.pos.lat # None /\ req.pos.lon # None

StoredLocationKnown(req) ==
    req.student.exists /\ req.student.lat # None /\ req.student.lon # None

PositionOf(req) ==
    IF PositionGiven(req) THEN req.pos
    ELSE [lat |-> req.student.lat, lon |-> req.student.lon]

HouseResolvable(h) == h \in {"bh1", "bh2"}

ServedOk(op) == last.op = op /\ last.code = 200

HasKind(alerts, kind) == \E i \in 1 .. Len(alerts) : alerts[i].kind = kind

\* a step that serves a resume of session s to the end (one request at a time)
ResumeWrote(s) ==
    /\ sessions[s].exists
    /\ sessions'[s].metrics.points_logged = sessions[s].metrics.points_logged + 1

\* C1: radius floor.  After a start and after every successful resume the
\* radius that is computed, the radius that is stored and the radius that is
\* returned are at least min_radius_km and at least that call's distance to
\* the destination plus safety_margin_km (stored and returned values: of the
\* distance as it is stored and returned).
RadiusFloor ==
    /\ \A s \in Existing :
           /\ sessions[s].bubble.radius_km >= MIN_RADIUS_KM
           /\ sessions[s].bubble.radius_km
                  >= sessions[s].metrics.last_distance_km + SAFETY_MARGIN_KM
    /\ ServedOk("resume") =>
           /\ last.body.bubble_radius_km >= MIN_RADIUS_KM
           /\ last.body.bubble_radius_km
                  >= last.body.distance_to_dest_km + SAFETY_MARGIN_KM
    /\ ServedOk("start") =>
           /\ last.body.bubble_radius_km >= MIN_RADIUS_KM
           /\ last.body.bubble_radius_km
                  >= last.body.distance_km_straight + SAFETY_MARGIN_KM
    /\ ServedOk("resume") =>
           /\ last.computed.radius_km >= MIN_RADIUS_KM
           /\ last.computed.radius_km >= last.computed.d_km + SAFETY_MARGIN_KM

\* C1 witness: a resume was served whose radius sits on the safety floor, above
\* both the minimum and the time-decayed candidate
RadiusOnSafetyFloor ==
    /\ ServedOk("resume")
    /\ last.body.bubble_radius_km
           = last.body.distance_to_dest_km + SAFETY_MARGIN_KM
    /\ last.body.bubble_radius_km > MIN_RADIUS_KM
    /\ now > 0

\* C2: monotone max deviation.  Resumes served one after another never lower
\* metrics.max_deviation_km, and after each it is at least the deviation
\* that call returned.
MonotoneMaxDeviation ==
    [][\A s \in SessionIds :
           sessions[s].exists =>
               /\ sessions'[s].metrics.max_deviation_km
                      >= sessions[s].metrics.max_deviation_km
               /\ ResumeWrote(s) =>
                      sessions'[s].metrics.max_deviation_km
                          >= last'.body.deviation_km]_vars

\* C2 witness: two resumes were served, the later with the smaller deviation,
\* and the maximum is still that of the earlier
MaxDeviationKept ==
    /\ ServedOk("resume")
    /\ sessions[1].metrics.points_logged = 3
    /\ sessions[1].metrics.last_deviation_km = last.body.deviation_km
    /\ sessions[1].metrics.max_deviation_km > last.body.deviation_km

\* C3: append-only breadcrumbs.  Every successful resume makes the stored
\* breadcrumbs longer by exactly one, the new entry last, every older entry
\* where and as it was.
BreadcrumbsGrowByOne ==
    [][\A s \in SessionIds :
           ResumeWrote(s) =>
               LET old == sessions[s].breadcrumbs
                   new == sessions'[s].breadcrumbs
               IN  /\ Len(new) = Len(old) + 1
                   /\ SubSeq(new, 1, Len(old)) = old
                   /\ new[Len(new)].captured_at = now_iso(now)]_vars

\* C4: alert mutual exclusion.  No resume returns a soft and a hard
\* deviation alert together, whatever the deviation and the allowance.
NoSoftWithHard ==
    ServedOk("resume") =>
        ~(HasKind(last.body.alerts, "soft") /\ HasKind(last.body.alerts, "hard"))

\* C4 witness: a resume returned a hard alert for a deviation that is also
\* over the allowance
HardAlertReturned ==
    /\ ServedOk("resume")
    /\ HasKind(last.body.alerts, "hard")
    /\ last.computed.dev_km >= KmUnit
    /\ last.body.deviation_km > last.body.allowed_dev_km

\* C5: a resume, by a caller who may resume it, of a session whose status is
\* not active fails with "Session not active" and changes neither the
\* session nor the index.
NotActiveRejected ==
    [][( /\ calls' = calls + 1
         /\ last'.op = "resume"
         /\ CallerAllowed(last'.req)
         /\ sessions[last'.req.sid].exists
         /\ sessions[last'.req.sid].status # "active" )
       => ( /\ last'.code = 400
            /\ last'.detail = "Session not active"
            /\ sessions' = sessions
            /\ index' = index )]_vars

\* C5 witness: a cancelled session that holds a resume's breadcrumb was
\* resumed and the request was refused
CancelledResumeRefused ==
    /\ last.op = "resume"
    /\ last.detail = "Session not active"
    /\ sessions[1].exists
    /\ sessions[1].status = "cancelled"
    /\ Len(sessions[1].breadcrumbs) = 2

\* C6: no mutation on failure.  A resume, by a caller who may resume, of a
\* session that does not exist, or of a house that is absent or has no
\* coordinate pair, or without a position when none is stored, fails and
\* writes nothing: the sessions and the index records stay as they were.
NoMutationOnFailure ==
    [][( /\ calls' = calls + 1
         /\ last'.op = "resume"
         /\ CallerAllowed(last'.req)
         /\ \/ ~sessions[last'.req.sid].exists
            \/ ~HouseResolvable(last'.req.house)
            \/ ~PositionGiven(last'.req) /\ ~StoredLocationKnown(last'.req) )
       => ( /\ last'.code \in {400, 404}
            /\ sessions' = sessions
            /\ index' = index )]_vars

\* C6 witness: a resume without a position, no location stored, was refused
\* while the session was active and had been resumed before
NoLocationResumeRefused ==
    /\ last.op = "resume"
    /\ last.code = 404
    /\ ~PositionGiven(last.req) /\ ~StoredLocationKnown(last.req)
    /\ sessions[1].exists
    /\ sessions[1].status = "active"
    /\ Len(sessions[1].breadcrumbs) = 2

\* C7: a session whose status is completed or cancelled takes no further
\* breadcrumb, whatever runs between a resume's status check and its write.
TerminalTakesNoBreadcrumb ==
    [][\A s \in SessionIds :
           (sessions[s].exists /\ sessions[s].status \in {"completed", "cancelled"})
               => Len(sessions'[s].breadcrumbs) = Len(sessions[s].breadcrumbs)]_vars

\* a step in which worker p sends the updates it computed
UpdateSent(p) == pc[p] = "update" /\ pc'[p] = "alerts"

\* C8: resumes of one session are not serialized.  What a resume writes is
\* what it computed from the session it read, whatever was written since:
\* max_deviation_km, last_distance_km and last_deviation_km are those of the
\* last writer alone.
LastWriterWins ==
    [][\A p \in Procs :
           UpdateSent(p) =>
               LET plan == call[p].plan
                   m == sessions'[plan.session_id].metrics
               IN  /\ m.max_deviation_km
                          = Max2(plan.prev_max_dev, plan.last_deviation_km)
                   /\ m.last_distance_km = plan.last_distance_km
                   /\ m.last_deviation_km = plan.last_deviation_km]_vars

\* C8 witness: both workers read the same session, both resumes were served
\* to the end, and the stored maximum is below the deviation one of them
\* logged
MaxDeviationLost ==
    /\ \A p \in Procs : pc[p] = "idle"
    /\ ServedOk("resume")
    /\ sessions[1].exists
    /\ sessions[1].metrics.points_logged = 3
    /\ \E i \in 2 .. Len(sessions[1].breadcrumbs) :
           sessions[1].breadcrumbs[i].deviation_km
               > sessions[1].metrics.max_deviation_km

\* C9: bubble decay formula.  The radius of a successful resume is, to the
\* metre, max(min_radius_km, d + safety_margin_km, R0 - floor(elapsed /
\* shrink_interval_min) * shrink_step_km), with R0 the radius stored at the
\* start, d the distance from the position of the call to the destination
\* of the call, and elapsed counted from started_at.
RadiusFormula ==
    ServedOk("resume") =>
        LET s == sessions[last.req.sid]
            pos == PositionOf(last.req)
            d == haversine_km(pos.lat, pos.lon,
                              s.destination.lat, s.destination.lon)
            R0 == s.breadcrumbs[1].bubble_radius_km
            elapsed == parse_iso(s.last_updated_at) - parse_iso(s.started_at)
            decayed == R0 - (elapsed \div SHRINK_INTERVAL_MIN) * SHRINK_STEP_KM
            floor == IF MIN_RADIUS_KM >= d + SAFETY_MARGIN_KM
                     THEN MIN_RADIUS_KM ELSE d + SAFETY_MARGIN_KM
            radius == IF decayed >= floor THEN decayed ELSE floor
        IN  /\ s.bubble.R0_km = R0
            /\ last.body.bubble_radius_km = Round3(radius)
            /\ s.bubble.radius_km = Round3(radius)

\* C9 witness: 35 minutes after the start a resume was served whose radius is
\* R0 less one step of 0.5 km, no floor in the way
OneStepShrunk ==
    /\ ServedOk("resume")
    /\ LET s == sessions[last.req.sid]
       IN  /\ parse_iso(s.last_updated_at) - parse_iso(s.started_at) = 35
           /\ SHRINK_INTERVAL_MIN = 30
           /\ last.body.bubble_radius_km = s.bubble.R0_km - KmUnit \div 2
           /\ last.body.bubble_radius_km
                  > last.body.distance_to_dest_km + SAFETY_MARGIN_KM

\* C10: initial state.  A successful start stores a new session that is
\* active, has the resolved position as origin, radius and R0 equal to
\* max(2.0, distance + 2.0) to the metre, no shrink step, one breadcrumb (the
\* start entry, at the origin-destination distance), points_logged 1, both
\* deviations 0, no alert and one bubble_history entry, "init".
InitialSession ==
    [][( /\ calls' = calls + 1
         /\ last'.op = "start"
         /\ last'.code = 200 )
       => LET id == last'.body.session_id
              s == sessions'[id]
              pos == PositionOf(last'.req)
              d == haversine_km(pos.lat, pos.lon,
                                s.destination.lat, s.destination.lon)
              R0 == IF d + 2 * KmUnit >= 2 * KmUnit
                    THEN d + 2 * KmUnit ELSE 2 * KmUnit
          IN  /\ ~sessions[id].exists
              /\ s.exists
              /\ s.status = "active"
              /\ s.origin = pos
              /\ s.bubble.radius_km = Round3(R0)
              /\ s.bubble.R0_km = Round3(R0)
              /\ last'.body.bubble_radius_km = Round3(R0)
              /\ s.bubble.shrink_step_count = 0
              /\ Len(s.breadcrumbs) = 1
              /\ s.breadcrumbs[1].movement = "start"
              /\ s.breadcrumbs[1].lat = pos.lat
              /\ s.breadcrumbs[1].lon = pos.lon
              /\ s.breadcrumbs[1].distance_to_dest_km = Round3(d)
              /\ s.metrics.points_logged = 1
              /\ s.metrics.max_deviation_km = 0
              /\ s.metrics.last_deviation_km = 0
              /\ s.alerts = <<>>
              /\ Len(s.bubble_history) = 1
              /\ s.bubble_history[1].reason = "init"]_vars

\* C10 witness: a session was started away from its destination, from the
\* stored location of the student, and nothing has touched it since
StartedFromStoredLocation ==
    /\ ServedOk("start")
    /\ ~PositionGiven(last.req)
    /\ sessions[1].exists
    /\ sessions[1].bubble.radius_km > 2 * KmUnit
    /\ Len(sessions[1].breadcrumbs) = 1

\* a step that serves a request of the given operation, with any outcome
Served(op) == calls' = calls + 1 /\ last'.op = op

\* a step that serves a resume with success
ResumeServed == Served("resume") /\ last'.code = 200

\* C11: a start, by a caller who may start, for a house that is absent or has
\* no coordinate pair fails with the destination error (404 "Boarding house
\* not found" / 400 "Destination coordinates missing"); for a house that
\* resolves, without a position and without a stored one, it fails with the
\* stored-location error (404); and a start that fails, whoever calls and
\* whatever the error, creates no session and no index record.
StartFailsCleanly ==
    [][Served("start") =>
         /\ (CallerAllowed(last'.req) /\ ~HouseResolvable(last'.req.house))
                => /\ last'.code \in {400, 404}
                   /\ last'.detail \in {"Boarding house not found",
                                        "Destination coordinates missing"}
         /\ ( /\ CallerAllowed(last'.req)
              /\ HouseResolvable(last'.req.house)
              /\ ~PositionGiven(last'.req)
              /\ ~StoredLocationKnown(last'.req) )
                => /\ last'.code = 404
                   /\ last'.detail \in
                          {"Student not found",
                           "No stored location. Provide current_lat/current_lon."}
         /\ last'.code # 200 => (sessions' = sessions /\ index' = index)
         /\ last'.code = 200 =>
                /\ CallerAllowed(last'.req)
                /\ HouseResolvable(last'.req.house)
                /\ PositionGiven(last'.req) \/ StoredLocationKnown(last'.req)]_vars

\* C11 witness: a start without a position, the student known but with no
\* location stored, was refused and there is still no session and no index
StartRefusedNoLocation ==
    /\ last.op = "start"
    /\ last.code = 404
    /\ last.detail = "No stored location. Provide current_lat/current_lon."
    /\ ~PositionGiven(last.req)
    /\ last.req.student.exists
    /\ \A s \in SessionIds : ~sessions[s].exists /\ ~index[s].exists

\* C12: hard alert threshold.  A served resume returns a hard alert if and
\* only if the deviation it computed is at least 1.0 km, whatever the radius
\* and the allowance, and then no soft alert.
HardIffOneKm ==
    ServedOk("resume") =>
        /\ HasKind(last.body.alerts, "hard") <=> last.computed.dev_km >= KmUnit
        /\ HasKind(last.body.alerts, "hard") => ~HasKind(last.body.alerts, "soft")

\* C12 witness: deviation 1.5 km with an allowance of 0.4 km: hard alert, no
\* soft alert
HardAtOnePointFive ==
    /\ ServedOk("resume")
    /\ 2 * last.computed.dev_km = 3 * KmUnit
    /\ 5 * last.body.allowed_dev_km = 2 * KmUnit
    /\ HasKind(last.body.alerts, "hard")
    /\ ~HasKind(last.body.alerts, "soft")

\* C13: soft alert range.  A served resume returns a soft alert if and only
\* if ratio * radius < deviation < 1.0 km, with the radius and the deviation
\* computed in that call; a deviation equal to the allowance gives none.
SoftIffInRange ==
    ServedOk("resume") =>
        ( HasKind(last.body.alerts, "soft")
            <=> ( /\ last.computed.dev_km * RatioDen
                         > RatioNum * last.computed.radius_km
                  /\ last.computed.dev_km < KmUnit ) )

\* C13 witness: a resume was served whose deviation, 0.4 km, is exactly the
\* allowance of its radius, and it returned no soft alert
DeviationOnAllowance ==
    /\ ServedOk("resume")
    /\ last.computed.dev_km > 0
    /\ last.computed.dev_km * RatioDen = RatioNum * last.computed.radius_km
    /\ ~HasKind(last.body.alerts, "soft")

\* the deviation stored by the previous call against the allowance of the
\* radius stored by that call
PrevOverOwnAllowance(s) ==
    sessions[s].metrics.last_deviation_km * RatioDen
        > RatioNum * sessions[s].bubble.radius_km

\* the deviation of the call that is served against the allowance of its radius
CurOverAllowance ==
    last'.computed.dev_km * RatioDen > RatioNum * last'.computed.radius_km

\* C14: return to corridor.  A served resume returns the return-to-corridor
\* alert if and only if the deviation of the previous call was over the
\* allowance of that previous call and the deviation of this call is within
\* the allowance of this call, also when the radius changed in between.
ReturnIffLeftAndBack ==
    [][ResumeServed =>
         ( HasKind(last'.body.alerts, "returning")
             <=> ( PrevOverOwnAllowance(last'.req.sid) /\ ~CurOverAllowance ) )]_vars

\* C15: no served resume returns a return-to-corridor alert together with a
\* soft or a hard alert, whatever the radius.
NoReturnWithOverage ==
    ServedOk("resume") =>
        ~( /\ HasKind(last.body.alerts, "returning")
           /\ \/ HasKind(last.body.alerts, "soft")
              \/ HasKind(last.body.alerts, "hard") )

\* C16: quiet corridor.  A served resume whose deviation is within its
\* allowance, after a call whose deviation was within the allowance (that of
\* its own radius and that of the radius of this call), returns no alert at
\* all, whatever the radius.
QuietCorridor ==
    [][( /\ ResumeServed
         /\ ~CurOverAllowance
         /\ ~PrevOverOwnAllowance(last'.req.sid)
         /\ sessions[last'.req.sid].metrics.last_deviation_km * RatioDen
                <= RatioNum * last'.computed.radius_km )
       => last'.body.alerts = <<>>]_vars

\* the fields of a session that only the start writes
Birth(doc) ==
    [session_id |-> doc.session_id, university |-> doc.university,
     user_id |-> doc.user_id, origin |-> doc.origin,
     started_at |-> doc.started_at, R0_km |-> doc.bubble.R0_km]

\* C17: immutable session fields.  A resume, served with success or refused,
\* leaves session_id, university, user_id, origin, started_at, R0 and status
\* of every session as they were; whatever ran, they are the values of the
\* start (whose position, time and radius its breadcrumb holds).
ImmutableFields ==
    [][/\ Served("resume") =>
              \A s \in SessionIds :
                  sessions[s].exists =>
                      /\ sessions'[s].exists
                      /\ Birth(sessions'[s]) = Birth(sessions[s])
                      /\ sessions'[s].status = sessions[s].status
       /\ \A s \in SessionIds :
              sessions'[s].exists =>
                  LET doc == sessions'[s]
                  IN  /\ doc.session_id = s
                      /\ doc.university = University
                      /\ doc.user_id = Owner
                      /\ doc.origin.lat = doc.breadcrumbs[1].lat
                      /\ doc.origin.lon = doc.breadcrumbs[1].lon
                      /\ doc.started_at = doc.breadcrumbs[1].captured_at
                      /\ doc.bubble.R0_km = doc.breadcrumbs[1].bubble_radius_km]_vars

\* C17 witness: two resumes were served, the later away from the origin and
\* after the clock moved, and the origin is still the position of the start
OriginKeptOverResumes ==
    /\ ServedOk("resume")
    /\ now > 0
    /\ sessions[1].exists
    /\ sessions[1].metrics.points_logged = 3
    /\ sessions[1].origin = P0
    /\ last.req.pos = PHard
    /\ sessions[1].started_at = now_iso(0)

\* the coordinates on record for a house
HouseCoords(h) == IF h = "bh2" THEN PD2 ELSE PD1

\* C18: destination rebinding.  A served resume stores the coordinates
\* resolved for the house it names and the name of that house, measures its
\* distance to that destination and its deviation from the segment that
\* runs from the stored origin to that destination.
RebindDestination ==
    [][ResumeServed =>
         LET s == last'.req.sid
             dest == HouseCoords(last'.req.house)
             pos == PositionOf(last'.req)
             origin == sessions[s].origin
             d == haversine_km(pos.lat, pos.lon, dest.lat, dest.lon)
             dev == point_to_segment_distance(pos.lat, pos.lon,
                        origin.lat, origin.lon, dest.lat, dest.lon)
         IN  /\ sessions'[s].destination = dest
             /\ sessions'[s].boardinghouse_id = last'.req.house
             /\ last'.body.destination = dest
             /\ last'.body.distance_to_dest_km = Round3(d)
             /\ sessions'[s].metrics.last_distance_km = Round3(d)
             /\ last'.body.deviation_km = Round3(dev)
             /\ sessions'[s].metrics.last_deviation_km = Round3(dev)
             /\ sessions'[s].origin = origin]_vars

\* C18 witness: a session started for bh1 (as its index record still says)
\* was resumed for bh2 and now holds the coordinates of bh2
ReboundToSecondHouse ==
    /\ ServedOk("resume")
    /\ last.req.house = "bh2"
    /\ index[1].exists
    /\ index[1].boardinghouse_id = "bh1"
    /\ sessions[1].boardinghouse_id = "bh2"
    /\ sessions[1].destination = PD2
    /\ sessions[1].origin = P0

\* C19: owner-only mutation.  A start or a resume by a student who is not
\* the owner named in the call is refused with 403 "Identity mismatch",
\* whether or not the session, the house or a position exist, and writes
\* nothing; every request that creates or changes a session is the owner's
\* or an admin's.
OwnerOnly ==
    [][(Served("start") \/ Served("resume")) =>
         /\ ~CallerAllowed(last'.req) =>
                /\ last'.code = 403
                /\ last'.detail = "Identity mismatch"
                /\ sessions' = sessions
                /\ index' = index
         /\ (sessions' # sessions \/ index' # index) => CallerAllowed(last'.req)]_vars

\* C19 witness: another student's resume of an active session that had been
\* resumed was refused
StrangerRefused ==
    /\ last.op = "resume"
    /\ last.code = 403
    /\ last.req.user.role = "student"
    /\ last.req.user.user_id # Owner
    /\ sessions[1].exists
    /\ sessions[1].status = "active"
    /\ sessions[1].metrics.points_logged = 2

Shrunk == "stepped_shrink_with_safety_floor"

\* the entry of this very change is stored already: same clock reading, same
\* radius before and after (ArrayUnion leaves such an element out)
SameEntryStored(history, at, radius_km, prev_radius_km) ==
    \E i \in 1 .. Len(history) :
        /\ history[i].reason = Shrunk
        /\ history[i].at = at
        /\ history[i].radius_km = radius_km
        /\ history[i].prev_radius_km = prev_radius_km

AlertsGrowByReturned ==
    [][ResumeServed =>
         LET old == sessions[last'.req.sid].alerts
             new == sessions'[last'.req.sid].alerts
         IN  new = old \o last'.body.alerts]_vars

\* a position of which the caller gave one half only
HalfPair(req) == (req.pos.lat = None) # (req.pos.lon = None)

\* C22: a start or a resume, by a caller who may make it, with one of
\* current_lat / current_lon only is refused and writes nothing; it is never
\* served from another position.
HalfPairRejected ==
    [][( /\ Served("start") \/ Served("resume")
         /\ CallerAllowed(last'.req)
         /\ HalfPair(last'.req) )
       => ( /\ last'.code # 200
            /\ sessions' = sessions
            /\ index' = index )]_vars

\* the resumes of a caller the limiter let through from second t on, for the
\* length of a window
AdmittedFrom(user_id, t) ==
    { j \in 1 .. Len(gate.admitted) :
          /\ gate.admitted[j].user_id = user_id
          /\ gate.admitted[j].t >= t
          /\ gate.admitted[j].t < t + LIMIT_WINDOW_S }

\* C23: resume rate limit.  Of every caller, in every interval of 30 seconds,
\* at most 2 resumes are let through to the handler.
AtMostTwoPerCaller ==
    \A i \in 1 .. Len(gate.admitted) :
        Cardinality(AdmittedFrom(gate.admitted[i].user_id, gate.admitted[i].t))
            <= LIMIT_HITS

\* C24: counter and breadcrumbs agree.  In every state, whatever the
\* interleaving of the resumes of a session, metrics.points_logged is the
\* number of breadcrumbs stored.
CounterMatchesBreadcrumbs ==
    \A s \in Existing :
        sessions[s].metrics.points_logged = Len(sessions[s].breadcrumbs)

\* C25: a resume is persisted as one.  No state holds the breadcrumb of a
\* resume (its updates are written) without the alerts of that resume.
AlertsStoredWithBreadcrumb ==
    \A p \in Procs :
        ( /\ pc[p] = "alerts"
          /\ InSeq(call[p].plan.point,
                   sessions[call[p].plan.session_id].breadcrumbs) )
            => \A i \in 1 .. Len(call[p].plan.alerts) :
                   InSeq(call[p].plan.alerts[i],
                         sessions[call[p].plan.session_id].alerts)

DestinationErrors == {"Boarding house not found", "Destination coordinates missing"}

LocationErrors ==
    {"Student not found", "No stored location. Provide current_lat/current_lon."}

\* C26: precondition order of a resume: the caller, then the session, then
\* its status, then the destination, then the position; the first check that
\* fails gives the error, and a resume that passes all is served.
PreconditionOrder ==
    [][Served("resume") =>
         LET req == last'.req
             session == sessions[req.sid]
         IN  IF ~CallerAllowed(req)
             THEN last'.code = 403 /\ last'.detail = "Identity mismatch"
             ELSE IF ~session.exists
             THEN last'.code = 404 /\ last'.detail = "Session not found"
             ELSE IF session.status # "active"
             THEN last'.code = 400 /\ last'.detail = "Session not active"
             ELSE IF ~HouseResolvable(req.house)
             THEN last'.code \in {400, 404} /\ last'.detail \in DestinationErrors
             ELSE IF ~PositionGiven(req) /\ ~StoredLocationKnown(req)
             THEN last'.code = 404 /\ last'.detail \in LocationErrors
             ELSE last'.code = 200]_vars

\* C26 witness: a resume of a completed session for a house that is not on
\* record was refused as not active
NotActiveBeforeDestination ==
    /\ last.op = "resume"
    /\ last.code = 400
    /\ last.detail = "Session not active"
    /\ ~HouseResolvable(last.req.house)
    /\ sessions[last.req.sid].exists
    /\ sessions[last.req.sid].status = "completed"

\* C27: a served resume that repeats the served resume before it (same
\* position, same house, same number of shrink steps) returns the same
\* distance, deviation, radius and allowance, leaves radius, destination,
\* max_deviation_km, last_distance_km and last_deviation_km as they were and
\* appends no bubble_history entry.
RepeatedResumeSame ==
    [][( /\ ResumeServed
         /\ ServedOk("resume")
         /\ last'.req = last.req
         /\ sessions'[last.req.sid].bubble.shrink_step_count
                = sessions[last.req.sid].bubble.shrink_step_count )
       => LET old == sessions[last.req.sid]
              new == sessions'[last.req.sid]
          IN  /\ last'.body.distance_to_dest_km = last.body.distance_to_dest_km
              /\ last'.body.deviation_km = last.body.deviation_km
              /\ last'.body.bubble_radius_km = last.body.bubble_radius_km
              /\ last'.body.allowed_dev_km = last.body.allowed_dev_km
              /\ new.bubble.radius_km = old.bubble.radius_km
              /\ new.destination = old.destination
              /\ new.metrics.max_deviation_km = old.metrics.max_deviation_km
              /\ new.metrics.last_distance_km = old.metrics.last_distance_km
              /\ new.metrics.last_deviation_km = old.metrics.last_deviation_km
              /\ new.bubble_history = old.bubble_history]_vars

\* C27 witness: the same sample, off the corridor, was logged twice within
\* one shrink step (one breadcrumb stands for both)
SameSampleTwice ==
    /\ ServedOk("resume")
    /\ sessions[1].exists
    /\ sessions[1].metrics.points_logged = 3
    /\ Len(sessions[1].breadcrumbs) = 2
    /\ sessions[1].metrics.last_deviation_km > 0
    /\ sessions[1].metrics.max_deviation_km = sessions[1].metrics.last_deviation_km

\* the floor of the radius at distance d_km
RadiusFloorAt(d_km) ==
    IF MIN_RADIUS_KM >= d_km + SAFETY_MARGIN_KM
    THEN MIN_RADIUS_KM ELSE d_km + SAFETY_MARGIN_KM

\* C28: the bubble tightens to its floor and stays.  Of two served resumes
\* from the same position to the same house the later computes a radius no
\* greater than the earlier; and a resume served when floor(elapsed /
\* shrink_interval_min) * shrink_step_km >= R0 - max(min_radius_km, d +
\* safety_margin_km) computes exactly that maximum.
TightensToFloor ==
    [][ResumeServed =>
         LET s == sessions[last'.req.sid]
             d == last'.computed.d_km
             steps == (now - parse_iso(s.started_at)) \div SHRINK_INTERVAL_MIN
         IN  /\ (ServedOk("resume") /\ last.req = last'.req)
                    => last'.computed.radius_km <= last.computed.radius_km
             /\ steps * SHRINK_STEP_KM >= s.bubble.R0_km - RadiusFloorAt(d)
                    => last'.computed.radius_km = RadiusFloorAt(d)]_vars

\* C28 witness: after steps that take more than R0 had to give, a resume was
\* served whose radius is the safety floor of its distance, below R0
SettledOnFloor ==
    /\ ServedOk("resume")
    /\ now > 0
    /\ last.computed.radius_km = last.computed.d_km + SAFETY_MARGIN_KM
    /\ LET s == sessions[last.req.sid]
       IN  /\ s.bubble.R0_km > last.computed.radius_km
           /\ s.bubble.shrink_step_count * SHRINK_STEP_KM
                  > s.bubble.R0_km - last.computed.radius_km
           /\ s.metrics.points_logged = 3

\* C29: the bubble is centred on the destination.  In every state the stored
\* bubble.center is the stored destination of the session.
BubbleCentredOnDestination ==
    \A s \in Existing : sessions[s].bubble.center = sessions[s].destination

\* C30: a resume, served or refused, leaves every index record as it was;
\* whatever ran, an index record holds what the start wrote: status active,
\* the time of the start, its straight distance and its radius, and the
\* house the session was started for.
IndexOnlyFromStart ==
    [][/\ Served("resume") => index' = index
       /\ \A s \in SessionIds :
              /\ index[s].exists => index'[s] = index[s]
              /\ index'[s].exists =>
                     /\ sessions'[s].exists
                     /\ index'[s].session_id = s
                     /\ index'[s].status = "active"
                     /\ index'[s].started_at = sessions'[s].started_at
                     /\ index'[s].distance_km_straight
                            = sessions'[s].distance_km_straight
                     /\ index'[s].bubble_radius_km = sessions'[s].bubble.R0_km
                     /\ index'[s].boardinghouse_id \in {"bh1", "bh2"}]_vars

\* C30 witness: a session was resumed for another house after a shrink step,
\* and its index record still names the first house and the first radius
IndexStaleAfterRebind ==
    /\ ServedOk("resume")
    /\ sessions[1].exists /\ index[1].exists
    /\ sessions[1].boardinghouse_id # index[1].boardinghouse_id
    /\ sessions[1].bubble.radius_km < index[1].bubble_radius_km
    /\ index[1].bubble_radius_km = sessions[1].bubble.R0_km

====
